---------------------------- MODULE Spec2Model ----------------------------
(***************************************************************************)
(* Model of turtle_adventure.py: a player turtle walks toward a clicked   *)
(* waypoint, wins inside the home box, and loses when an enemy hits it.   *)
(* An EnemyGenerator callback keeps adding enemies of a level-dependent   *)
(* kind.                                                                   *)
(*                                                                         *)
(* Arithmetic.  The program computes a move as speed*cos(a),             *)
(* speed*sin(a) with a = atan2(dy, dx) and keeps the result as a float.   *)
(* The model follows the game on the bearings where that result is a      *)
(* rational number it can hold exactly: along an axis and on the 3-4-5    *)
(* bearings (Step); the clicks and the sampled points of the model are    *)
(* chosen so that no other bearing arises.  The player, the waypoint and  *)
(* the home are in whole pixels; the coordinates of an enemy are in       *)
(* units of 1/10000 pixel (PosUnit) and sizes and speeds in thousandths   *)
(* (Milli), so that the boss's growth of 0.7 and 0.001 per update and     *)
(* its steps are exact.  Floating-point rounding error is not modelled.   *)
(* The player's turtle rounds its heading to 10 decimals, which off the   *)
(* axes puts it some 1e-12 pixel beside the exact point, enough to decide *)
(* a comparison that is a tie on whole pixels; the player of the model    *)
(* walks along the axes only, where the turtle stays on whole pixels      *)
(* (Exact).                                                               *)
(*                                                                         *)
(* One animation frame runs every element's update and render in the    *)
(* order the elements were added (waypoint, home, player, enemies).       *)
(* Player.render calls the turtle screen's update(), which lets Tk handle *)
(* the events that are due, so a click or a create_enemy timer can run    *)
(* inside a frame, after the player's update and before the enemies'.     *)
(* A frame is therefore two actions, animate and animate_rest; a timer    *)
(* callback (create_enemy) is one action and a click is one action.       *)
(***************************************************************************)
EXTENDS Integers, Sequences, FiniteSets

VARIABLES
    level,          \* TurtleAdventureGame.level / EnemyGenerator.__level
    screen_width,   \* TurtleAdventureGame.screen_width (= canvas.winfo_width())
    screen_height,  \* TurtleAdventureGame.screen_height (= canvas.winfo_height())
    player,         \* [x, y]: the player's turtle position
    waypoint,       \* [x, y, active]
    home,           \* [x, y, size]
    enemies,        \* game.enemies, in order of addition
    fake_homes,     \* positions of the decoy Home elements added by bosses
    home_elements,  \* number of Home elements among the game's elements
    is_running,     \* Game.__is_running: the animation chain is alive
    won,            \* game_over_win has been called
    lost,           \* game_over_lose has been called
    pending,        \* number of scheduled create_enemy callbacks
    spawn_delay,    \* delay (ms) given to the latest after(..., create_enemy)
    created,        \* number of create_enemy invocations that returned
    hung,           \* create_enemy is stuck in its sampling loop
    ticks,          \* frames so far (bounded by MaxTicks)
    clicks,         \* clicks so far (bounded by MaxClicks)
    rendering,      \* a frame is inside Player.render, its enemies not yet updated
    last            \* what the latest handler did (observation only)

vars == <<level, screen_width, screen_height, player, waypoint, home, enemies,
          fake_homes, home_elements, is_running, won, lost, pending,
          spawn_delay, created, hung, ticks, clicks, rendering, last>>

----------------------------------------------------------------------------
(* Bounds of the model *)

MaxTicks == 14
MaxClicks == 1
MaxEnemies == 2

(* Inputs: constructor arguments, click points, sampled points *)

ScreenSizes == { <<170, 200>> }
Levels == {1, 3, 6, 8, 18, 19, 20, 83}

(* Program constants *)

Milli == 1000
PosUnit == 10000

(* the smallest coordinate of the walks of the player in the model *)
ExactFrom == 38
PlayerSpeed == 5
HomeSize == 20
HomeMargin == 100
PlayerStartX == 50
EnemySize == 20
RandomWalkSpeed == 3
ChasingSpeed == 3
FencingSpeed == 5
DistanceFromHome == 50
BossSpeed == 3
GrowthRate == 700
SpeedGrowth == 1
NumFakeHomes == 5
BaseDistance == 250
MinDistanceFloor == 100
BaseDelay == 1000
DelayFloor == 200
LevelFactor == 10

Abs(a) == IF a < 0 THEN 0 - a ELSE a
Sgn(a) == IF a < 0 THEN 0 - 1 ELSE IF a > 0 THEN 1 ELSE 0
Max(a, b) == IF a >= b THEN a ELSE b
Dist2(ax, ay, bx, by) == (ax - bx) * (ax - bx) + (ay - by) * (ay - by)

(* a whole number of pixels in the unit of the enemies' coordinates *)
Px(v) == v * PosUnit

(* a speed in thousandths as a length in the unit of the enemies'         *)
(* coordinates                                                            *)
Len10(sm) == sm * (PosUnit \div Milli)

(* a step of length s along each axis on which the target is away *)
Step_per_axis(dx, dy, s) == <<Sgn(dx) * s, Sgn(dy) * s>>

(* The displacement s*cos(atan2(dy, dx)), s*sin(atan2(dy, dx)), on the    *)
(* bearings on which a step of length s has rational components that are  *)
(* whole numbers: an axis, or a 3-4-5 bearing with s a multiple of 5.     *)
(* atan2(0, 0) = 0: with no bearing the move is along +x.                 *)
Step(dx, dy, s) ==
    CASE dx = 0 /\ dy = 0 -> <<s, 0>>
      [] dx # 0 /\ dy = 0 -> <<Sgn(dx) * s, 0>>
      [] dx = 0 /\ dy # 0 -> <<0, Sgn(dy) * s>>
      [] dx # 0 /\ s % 5 = 0 /\ 3 * Abs(dy) = 4 * Abs(dx) ->
            <<Sgn(dx) * ((3 * s) \div 5), Sgn(dy) * ((4 * s) \div 5)>>
      [] dx # 0 /\ s % 5 = 0 /\ 4 * Abs(dy) = 3 * Abs(dx) ->
            <<Sgn(dx) * ((4 * s) \div 5), Sgn(dy) * ((3 * s) \div 5)>>

----------------------------------------------------------------------------
(* Home, Player, Waypoint *)

(* contains with the edges of the box left out *)
contains_strict(h, x, y) ==
    /\ 2 * h.x - h.size < 2 * x /\ 2 * x < 2 * h.x + h.size
    /\ 2 * h.y - h.size < 2 * y /\ 2 * y < 2 * h.y + h.size

(* a win test that also accepts the boxes of the fake homes *)
contains_or_fake(h, x, y) ==
    \/ /\ 2 * h.x - h.size <= 2 * x /\ 2 * x <= 2 * h.x + h.size
       /\ 2 * h.y - h.size <= 2 * y /\ 2 * y <= 2 * h.y + h.size
    \/ \E f \in fake_homes :
          /\ 2 * f[1] - HomeSize <= 2 * x /\ 2 * x <= 2 * f[1] + HomeSize
          /\ 2 * f[2] - HomeSize <= 2 * y /\ 2 * y <= 2 * f[2] + HomeSize

(* Home.contains: closed box of side size centred on the home *)
contains(h, x, y) ==
    /\ 2 * h.x - h.size <= 2 * x /\ 2 * x <= 2 * h.x + h.size
    /\ 2 * h.y - h.size <= 2 * y /\ 2 * y <= 2 * h.y + h.size

(* an arrival test that asks for the waypoint itself *)
Arrived_exact(p, w) == Dist2(p.x, p.y, w.x, w.y) = 0

(* turtle.distance(waypoint) < speed, on whole pixels *)
Arrived(p, w) == Dist2(p.x, p.y, w.x, w.y) < PlayerSpeed * PlayerSpeed

(* a move that stops on the waypoint when it is nearer than one step *)
Forward_clamped(p, w) ==
    LET s == Step(w.x - p.x, w.y - p.y, PlayerSpeed)
    IN  IF Dist2(p.x, p.y, w.x, w.y) < PlayerSpeed * PlayerSpeed
        THEN [x |-> w.x, y |-> w.y]
        ELSE [x |-> p.x + s[1], y |-> p.y + s[2]]

(* The walks on which forward() keeps the turtle on whole pixels: along   *)
(* an axis, where turtle.towards gives 0, 90, 180 or 270 exactly, and on  *)
(* coordinates above ExactFrom, where the stray component that the        *)
(* turtle's rotated orientation vector carries (below 1e-15 per step,     *)
(* for the walks of up to three clicks) is rounded away.                  *)
Exact(p, w) ==
    /\ w.x = p.x \/ w.y = p.y
    /\ p.x >= ExactFrom /\ p.y >= ExactFrom
    /\ w.x >= ExactFrom /\ w.y >= ExactFrom

(* turtle.setheading(turtle.towards(waypoint)); turtle.forward(speed),    *)
(* on the walks that keep the turtle on whole pixels                      *)
Forward(p, w) ==
    CASE Exact(p, w) ->
       LET s == Step(w.x - p.x, w.y - p.y, PlayerSpeed)
       IN  [x |-> p.x + s[1], y |-> p.y + s[2]]

(* Player.update: the win test on the position at entry, then the move.   *)
(* game_over_win does not return from update: the move still happens.     *)
PlayerUpdate(p, w, h) ==
    LET q == Forward(p, w)
    IN  IF w.active
        THEN [player   |-> q,
              waypoint |-> [w EXCEPT !.active = ~Arrived(q, w)],
              win      |-> contains(h, p.x, p.y)]
        ELSE [player |-> p, waypoint |-> w, win |-> contains(h, p.x, p.y)]

----------------------------------------------------------------------------
(* Enemies *)

(* Enemy.hits_player: open box of side size centred on the enemy *)
hits_player(e, p) ==
    /\ 2 * e.x - Len10(e.size) < 2 * Px(p.x)
    /\ 2 * Px(p.x) < 2 * e.x + Len10(e.size)
    /\ 2 * e.y - Len10(e.size) < 2 * Px(p.y)
    /\ 2 * Px(p.y) < 2 * e.y + Len10(e.size)

(* a generator that chooses the class by level mod 3 *)
KindOf_mod3(lv) ==
    CASE lv % 3 = 1 -> "RandomWalkEnemy"
      [] lv % 3 = 2 -> "ChasingEnemy"
      [] OTHER      -> "BossEnemy"

(* level_mod = self.level % 4 and the class chosen by it *)
KindOf(lv) ==
    CASE lv % 4 = 1 -> "RandomWalkEnemy"
      [] lv % 4 = 2 -> "ChasingEnemy"
      [] lv % 4 = 3 -> "FencingEnemy"
      [] OTHER      -> "BossEnemy"

InitialSpeed(kind) ==
    CASE kind = "RandomWalkEnemy" -> RandomWalkSpeed * Milli
      [] kind = "ChasingEnemy"    -> ChasingSpeed * Milli
      [] kind = "FencingEnemy"    -> FencingSpeed * Milli
      [] OTHER                    -> BossSpeed * Milli

(* random.choice of the two initial states of a RandomWalkEnemy *)
StatesX(kind) ==
    IF kind = "RandomWalkEnemy" THEN {"moving_right", "moving_left"}
    ELSE {"moving_right"}
StatesY(kind) ==
    IF kind = "RandomWalkEnemy" THEN {"moving_up", "moving_down"}
    ELSE {"moving_up"}

(* The object a constructor leaves, before create_enemy places it.  n     *)
(* counts the updates of a BossEnemy, whose size and speed depend on it.  *)
NewEnemy(kind, sx, sy) ==
    [kind |-> kind, x |-> 0, y |-> 0,
     state_x |-> sx, state_y |-> sy,
     current_direction_index |-> 0,
     size |-> EnemySize * Milli, speed |-> InitialSpeed(kind), n |-> 0]

(* moving_right / moving_left without the test of the edge *)
MoveX_no_flip(e, w) ==
    IF e.state_x = "moving_right"
    THEN [e EXCEPT !.x = e.x + Len10(e.speed)]
    ELSE [e EXCEPT !.x = e.x - Len10(e.speed)]

(* RandomWalkEnemy.moving_right / moving_left *)
MoveX(e, w) ==
    IF e.state_x = "moving_right"
    THEN LET x1 == e.x + Len10(e.speed)
         IN  [e EXCEPT !.x = x1,
                       !.state_x = IF x1 > Px(w) THEN "moving_left" ELSE @]
    ELSE LET x1 == e.x - Len10(e.speed)
         IN  [e EXCEPT !.x = x1,
                       !.state_x = IF x1 < 0 THEN "moving_right" ELSE @]

(* RandomWalkEnemy.moving_up / moving_down *)
MoveY(e, h) ==
    IF e.state_y = "moving_up"
    THEN LET y1 == e.y + Len10(e.speed)
         IN  [e EXCEPT !.y = y1,
                       !.state_y = IF y1 > Px(h) THEN "moving_down" ELSE @]
    ELSE LET y1 == e.y - Len10(e.speed)
         IN  [e EXCEPT !.y = y1,
                       !.state_y = IF y1 < 0 THEN "moving_up" ELSE @]

(* RandomWalkEnemy.update, before the hit test *)
RandomWalkUpdate(e, w, h) == MoveY(MoveX(e, w), h)

(* ChasingEnemy.update, before the hit test *)
ChasingUpdate(e, p) ==
    LET s == Step(Px(p.x) - e.x, Px(p.y) - e.y, Len10(e.speed))
    IN  [e EXCEPT !.x = @ + s[1], !.y = @ + s[2]]

(* a fencing enemy that skips a direction when it turns *)
FencingUpdate_skip(e, hm) ==
    LET i  == e.current_direction_index
        v  == Len10(e.speed)
        nx == (i + 2) % 4
    IN  CASE i = 0 ->
               [e EXCEPT !.x = @ + v,
                  !.current_direction_index =
                      IF e.x + v >= Px(hm.x + DistanceFromHome) THEN nx ELSE @]
          [] i = 1 ->
               [e EXCEPT !.y = @ + v,
                  !.current_direction_index =
                      IF e.y + v >= Px(hm.y + DistanceFromHome) THEN nx ELSE @]
          [] i = 2 ->
               [e EXCEPT !.x = @ - v,
                  !.current_direction_index =
                      IF e.x - v <= Px(hm.x - DistanceFromHome) THEN nx ELSE @]
          [] OTHER ->
               [e EXCEPT !.y = @ - v,
                  !.current_direction_index =
                      IF e.y - v <= Px(hm.y - DistanceFromHome) THEN nx ELSE @]

(* FencingEnemy.update, before the hit test:                              *)
(* directions = ["right", "down", "left", "up"]                           *)
FencingUpdate(e, hm) ==
    LET i  == e.current_direction_index
        v  == Len10(e.speed)
        nx == (i + 1) % 4
    IN  CASE i = 0 ->
               [e EXCEPT !.x = @ + v,
                  !.current_direction_index =
                      IF e.x + v >= Px(hm.x + DistanceFromHome) THEN nx ELSE @]
          [] i = 1 ->
               [e EXCEPT !.y = @ + v,
                  !.current_direction_index =
                      IF e.y + v >= Px(hm.y + DistanceFromHome) THEN nx ELSE @]
          [] i = 2 ->
               [e EXCEPT !.x = @ - v,
                  !.current_direction_index =
                      IF e.x - v <= Px(hm.x - DistanceFromHome) THEN nx ELSE @]
          [] OTHER ->
               [e EXCEPT !.y = @ - v,
                  !.current_direction_index =
                      IF e.y - v <= Px(hm.y - DistanceFromHome) THEN nx ELSE @]

(* a boss that moves but does not grow *)
BossUpdate_no_growth(e, p) ==
    LET s == Step(Px(p.x) - e.x, Px(p.y) - e.y, Len10(e.speed))
    IN  [e EXCEPT !.x = @ + s[1], !.y = @ + s[2], !.n = @ + 1]

(* BossEnemy.update, before the hit test: the move uses the speed at      *)
(* entry, then size and speed grow.                                       *)
BossUpdate(e, p) ==
    LET s == Step(Px(p.x) - e.x, Px(p.y) - e.y, Len10(e.speed))
    IN  [e EXCEPT !.x = @ + s[1], !.y = @ + s[2],
                  !.size = @ + GrowthRate, !.speed = @ + SpeedGrowth,
                  !.n = @ + 1]

(* update of one enemy, by its class *)
EnemyUpdate(e, p, hm, w, h) ==
    CASE e.kind = "RandomWalkEnemy" -> RandomWalkUpdate(e, w, h)
      [] e.kind = "ChasingEnemy"    -> ChasingUpdate(e, p)
      [] e.kind = "FencingEnemy"    -> FencingUpdate(e, hm)
      [] OTHER                      -> BossUpdate(e, p)

(* an update in which a RandomWalkEnemy draws its two states again, as    *)
(* its constructor does with random.choice                                *)
Outcomes_redrawn(e, p, hm, w, h) ==
    IF e.kind = "RandomWalkEnemy"
    THEN { [e    |-> EnemyUpdate([e EXCEPT !.state_x = sx, !.state_y = sy],
                                 p, hm, w, h),
            drew |-> TRUE] :
              sx \in StatesX(e.kind), sy \in StatesY(e.kind) }
    ELSE { [e |-> EnemyUpdate(e, p, hm, w, h), drew |-> FALSE] }

(* The results of one update(): the state e it can leave the enemy in,    *)
(* and whether it called the random module (drew).  No update method      *)
(* and none of the methods it calls (moving_*, move_to, hits_player)      *)
(* calls random.                                                          *)
Outcomes(e, p, hm, w, h) ==
    { [e |-> EnemyUpdate(e, p, hm, w, h), drew |-> FALSE] }

(* The enemies after the update of the first k of them, in order, and     *)
(* whether one of the updates called the random module                    *)
RECURSIVE UpdatedTo(_, _, _, _, _, _)
UpdatedTo(es, k, p, hm, w, h) ==
    IF k = 0 THEN { [es |-> <<>>, drew |-> FALSE] }
    ELSE { [es |-> Append(s.es, o.e), drew |-> s.drew \/ o.drew] :
              s \in UpdatedTo(es, k - 1, p, hm, w, h),
              o \in Outcomes(es[k], p, hm, w, h) }

----------------------------------------------------------------------------
(* EnemyGenerator *)

(* min_distance = max(250 - level * 10, 100) *)
min_distance(lv) == Max(BaseDistance - lv * LevelFactor, MinDistanceFloor)

(* a delay without its floor *)
Delay_no_floor(lv) == BaseDelay - lv * LevelFactor

(* max(200, 1000 - level * 10) *)
Delay(lv) == Max(DelayFloor, BaseDelay - lv * LevelFactor)

(* a distance test that accepts every point *)
FarEnough_always(rx, ry, p, lv) == TRUE

(* distance_to_player >= min_distance, for a sampled whole-pixel point *)
FarEnough(rx, ry, p, lv) ==
    Dist2(rx, ry, p.x, p.y) >= min_distance(lv) * min_distance(lv)

(* The corners of the canvas, where the distance to any point of it is    *)
(* largest.                                                               *)
Corners(w, h) == { <<x, y>> : x \in {0, w}, y \in {0, h} }

(* The ends of the line y = height // 2 the player starts on *)
TrackEnds(w, h) == { <<0, h \div 2>>, <<w, h \div 2>> }

(* The points random.randint(0, width), random.randint(0, height) is      *)
(* drawn from in the model: the corners, and for the enemies that head    *)
(* for the player also the ends of the player's line.                     *)
SpawnPoints(kind, w, h) ==
    IF kind \in {"ChasingEnemy", "BossEnemy"}
    THEN Corners(w, h) \cup TrackEnds(w, h)
    ELSE Corners(w, h)

(* The draws of the model that pass the distance test.  For an enemy that *)
(* heads for the player the model takes an end of the player's line, from *)
(* which the bearing to a player on that line is along an axis, whenever  *)
(* one passes, and a corner otherwise: some draw of the model passes      *)
(* whenever some point of the canvas does.                                *)
Accepted(kind, lv, w, h, p) ==
    LET pass  == { q \in SpawnPoints(kind, w, h) : FarEnough(q[1], q[2], p, lv) }
        track == pass \cap TrackEnds(w, h)
    IN  IF kind \in {"ChasingEnemy", "BossEnemy"} /\ track # {}
        THEN track ELSE pass

(* No point of the canvas passes the distance test: the sampling loop    *)
(* (while True) cannot end.  The farthest point is a corner.              *)
Stuck(lv, w, h, p) ==
    /\ lv % 4 # 3
    /\ \A q \in Corners(w, h) : ~FarEnough(q[1], q[2], p, lv)

(* The enemy as its constructor leaves it.  FencingEnemy.__init__ puts    *)
(* itself on the corner home + 50 and calls update() once.                *)
Construct(kind, sx, sy, hm) ==
    IF kind = "FencingEnemy"
    THEN FencingUpdate([NewEnemy(kind, sx, sy) EXCEPT
                           !.x = Px(hm.x + DistanceFromHome),
                           !.y = Px(hm.y + DistanceFromHome)], hm)
    ELSE NewEnemy(kind, sx, sy)

(* game_over_lose is called from within the constructor *)
ConstructorLoses(kind, hm, p) ==
    /\ kind = "FencingEnemy"
    /\ hits_player(Construct(kind, "moving_right", "moving_up", hm), p)

(* The enemies create_enemy can add: for a fencing level the corner       *)
(* home + 50, otherwise a sampled point that passes the distance test.    *)
Candidates(lv, w, h, hm, p) ==
    LET kind == KindOf(lv)
    IN  IF lv % 4 = 3
        THEN { [Construct(kind, "moving_right", "moving_up", hm) EXCEPT
                   !.x = Px(hm.x + DistanceFromHome),
                   !.y = Px(hm.y + DistanceFromHome)] }
        ELSE { [Construct(kind, sx, sy, hm) EXCEPT !.x = Px(pt[1]), !.y = Px(pt[2])] :
                   pt \in Accepted(kind, lv, w, h, p),
                   sx \in StatesX(kind), sy \in StatesY(kind) }

(* BossEnemy.generate_fake_homes: the positions taken by the five draws   *)
FakeHomePoints(w, h) == { <<PlayerStartX, h \div 2>> }
FakeHomeChoices(lv, w, h) ==
    IF lv % 4 = 0 THEN (SUBSET FakeHomePoints(w, h)) \ {{}} ELSE {{}}

(* create_enemy calls the random module: random.choice in                 *)
(* RandomWalkEnemy.__init__, random.randint for a boss and its fake       *)
(* homes and in the sampling loop; on a fencing level it calls none.      *)
Draws(lv) == lv % 4 # 3

(* self.game.after(delay, self.create_enemy): one more callback pending *)
after(n) == n + 1

(* EnemyGenerator.create_enemy, run as a timer callback *)
create_enemy ==
    /\ pending > 0
    /\ ~hung
    /\ created < MaxEnemies
    /\ LET kind  == KindOf(level)
           cands == Candidates(level, screen_width, screen_height, home, player)
           lose  == ConstructorLoses(kind, home, player)
       IN  /\ \E fh \in FakeHomeChoices(level, screen_width, screen_height) :
                 fake_homes' = fake_homes \cup fh
           /\ home_elements' =
                 home_elements + (IF level % 4 = 0 THEN NumFakeHomes ELSE 0)
           /\ IF Stuck(level, screen_width, screen_height, player)
              THEN /\ hung' = TRUE
                   /\ pending' = pending - 1
                   /\ UNCHANGED <<enemies, created, spawn_delay>>
              ELSE /\ \E e \in cands : enemies' = Append(enemies, e)
                   /\ pending' = after(pending - 1)
                   /\ spawn_delay' = Delay(level)
                   /\ created' = created + 1
                   /\ hung' = FALSE
           /\ lost' = (lost \/ lose)
           /\ is_running' = (is_running /\ ~lose)
           /\ last' = [op |-> "create_enemy", p |-> player,
                       active |-> waypoint.active, win |-> FALSE, lose |-> lose,
                       drew |-> Draws(level)]
    /\ UNCHANGED <<level, screen_width, screen_height, player, waypoint, home,
                   won, ticks, clicks, rendering>>

----------------------------------------------------------------------------
(* The game *)

(* The first part of a frame: the updates and renders of the waypoint   *)
(* and the home, which change nothing, and Player.update, up to the       *)
(* screen update inside Player.render.  stop() ends the chain of frames;  *)
(* the frame in which it is called runs to its end.                       *)
FramePlayer ==
    /\ is_running
    /\ ~rendering
    /\ ~hung
    /\ \E u \in {PlayerUpdate(player, waypoint, home)} :
          /\ player' = u.player
          /\ waypoint' = u.waypoint
          /\ won' = (won \/ u.win)
          /\ is_running' = ~u.win
          /\ last' = [op |-> "animate", p |-> player,
                      active |-> waypoint.active,
                      win |-> u.win, lose |-> FALSE, drew |-> FALSE]
    /\ rendering' = TRUE
    /\ UNCHANGED <<level, screen_width, screen_height, home, enemies,
                   fake_homes, home_elements, lost, pending, spawn_delay,
                   created, hung, clicks>>

(* The rest of the frame: the update of every enemy in the list, in the   *)
(* order of addition, each with its hit test against the player.          *)
FrameEnemies ==
    /\ rendering
    /\ ~hung
    /\ \E u \in UpdatedTo(enemies, Len(enemies), player, home,
                          screen_width, screen_height) :
          /\ enemies' = u.es
          /\ \E lose \in {\E i \in 1..Len(u.es) :
                              hits_player(u.es[i], player)} :
                /\ lost' = (lost \/ lose)
                /\ is_running' = (is_running /\ ~lose)
                /\ last' = [op |-> "animate_enemies", p |-> player,
                            active |-> waypoint.active,
                            win |-> FALSE, lose |-> lose, drew |-> u.drew]
    /\ rendering' = FALSE
    /\ UNCHANGED <<level, screen_width, screen_height, player, waypoint, home,
                   fake_homes, home_elements, won, pending, spawn_delay,
                   created, hung, clicks>>

(* Game.animate up to Player.render, a frame of the bounded game *)
animate == ticks < MaxTicks /\ FramePlayer /\ ticks' = ticks + 1

(* Game.animate from Player.render on *)
animate_rest == FrameEnemies /\ UNCHANGED ticks

(* Game.animate up to Player.render, with the frames not counted *)
animate_uncounted == FramePlayer /\ UNCHANGED ticks

(* The clicks of the model: the home, the player's start, a point 2      *)
(* pixels from it along x and one 10 pixels (two steps) from it along y.  *)
ClickPoints(w, h) ==
    { <<w - HomeMargin, h \div 2>>, <<PlayerStartX, h \div 2>>,
      <<PlayerStartX + 2, h \div 2>>, <<PlayerStartX, h \div 2 + 10>> }

(* On a level whose enemies head for the player the clicks of the model   *)
(* are on the line the player starts on, so that the bearing from an      *)
(* enemy on that line to the player stays along it.                       *)
OnTrack(lv, h, pt) ==
    KindOf(lv) \in {"ChasingEnemy", "BossEnemy"} => pt[2] = h \div 2

(* <Button-1>: waypoint.activate(e.x, e.y) *)
activate ==
    /\ ~hung
    /\ clicks < MaxClicks
    /\ \E pt \in ClickPoints(screen_width, screen_height) :
          /\ Exact(player, [x |-> pt[1], y |-> pt[2]])
          /\ OnTrack(level, screen_height, pt)
          /\ waypoint' = [x |-> pt[1], y |-> pt[2], active |-> TRUE]
    /\ clicks' = clicks + 1
    /\ last' = [op |-> "activate", p |-> player, active |-> waypoint.active,
                win |-> FALSE, lose |-> FALSE, drew |-> FALSE]
    /\ UNCHANGED <<level, screen_width, screen_height, player, home, enemies,
                   fake_homes, home_elements, is_running, won, lost, pending,
                   spawn_delay, created, hung, ticks, rendering>>

(* TurtleAdventureGame.__init__ / init_game, then start().  The generator *)
(* is constructed, and runs create_enemy once, while the player's turtle  *)
(* is still at its origin (0, 0); the player is placed afterwards.        *)
Origin == [x |-> 0, y |-> 0]

(* The game as the constructor and start() leave it, for a canvas w x h   *)
(* and a level lv.  When the constructor's create_enemy cannot return,    *)
(* init_game has not placed the player and start() is never reached.      *)
Constructed(w, h, lv) ==
    LET hm    == [x |-> w - HomeMargin, y |-> h \div 2, size |-> HomeSize]
        cands == Candidates(lv, w, h, hm, Origin)
        lose  == ConstructorLoses(KindOf(lv), hm, Origin)
    IN  /\ level = lv
        /\ screen_width = w
        /\ screen_height = h
        /\ home = hm
        /\ waypoint = [x |-> 0, y |-> 0, active |-> FALSE]
        /\ fake_homes \in FakeHomeChoices(lv, w, h)
        /\ home_elements = 1 + (IF lv % 4 = 0 THEN NumFakeHomes ELSE 0)
        /\ IF Stuck(lv, w, h, Origin)
           THEN /\ hung = TRUE
                /\ player = Origin
                /\ is_running = FALSE
                /\ enemies = <<>>
                /\ pending = 0
                /\ spawn_delay = 0
                /\ created = 0
           ELSE /\ hung = FALSE
                /\ player = [x |-> PlayerStartX, y |-> h \div 2]
                /\ is_running = TRUE
                /\ enemies \in { <<e>> : e \in cands }
                /\ pending = after(0)
                /\ spawn_delay = Delay(lv)
                /\ created = 1
        /\ won = FALSE
        /\ lost = lose
        /\ ticks = 0
        /\ clicks = 0
        /\ rendering = FALSE
        /\ last = [op |-> "init", p |-> Origin, active |-> FALSE,
                   win |-> FALSE, lose |-> lose, drew |-> Draws(lv)]

Init == \E sz \in ScreenSizes, lv \in Levels : Constructed(sz[1], sz[2], lv)

Next == animate \/ animate_rest \/ create_enemy \/ activate

Spec == Init /\ [][Next]_vars

(* The game for as long as it runs, on a chasing level, where an enemy    *)
(* reaches the player in the end, and on a fencing level, where the game  *)
(* can go on for ever: frames without a bound, clicks, and the timer      *)
(* callbacks up to MaxEnemies enemies.  While is_running holds each frame *)
(* schedules the next, and a frame that has begun runs to its end, so     *)
(* both parts of a frame are weakly fair.                                 *)
LiveLevels == {18, 19}
LiveInit == Init /\ level \in LiveLevels
LiveNext == animate_uncounted \/ animate_rest \/ create_enemy \/ activate
LiveSpec ==
    LiveInit /\ [][LiveNext]_vars
       /\ WF_vars(animate_uncounted) /\ WF_vars(animate_rest)

(* A fencing level for as long as the game runs: frames without a bound   *)
(* and the timer callbacks up to MaxEnemies enemies, which circle the     *)
(* home at every distance from each other; the player stands at its       *)
(* start, outside the fence's reach.                                      *)
FenceInit == Init /\ level % 4 = 3
FenceNext == animate_uncounted \/ animate_rest \/ create_enemy
FenceSpec ==
    FenceInit /\ [][FenceNext]_vars
       /\ WF_vars(animate_uncounted) /\ WF_vars(animate_rest)

(* One enemy close to a standing player, as in the middle of a chase, and *)
(* the frames that follow: the enemy's update and its hit test.           *)
NearOffsets ==
    { <<k, 0>> : k \in 0..20 } \cup { <<0, k>> : k \in 0..20 }
       \cup { <<3 * j, 4 * j>> : j \in 1..5 } \cup { <<4 * j, 3 * j>> : j \in 1..5 }
NearInit ==
    \E sz \in ScreenSizes, lv \in {18, 20}, d \in NearOffsets :
       LET w == sz[1]
           h == sz[2]
       IN  /\ level = lv
           /\ screen_width = w
           /\ screen_height = h
           /\ home = [x |-> w - HomeMargin, y |-> h \div 2, size |-> HomeSize]
           /\ waypoint = [x |-> 0, y |-> 0, active |-> FALSE]
           /\ player = [x |-> PlayerStartX, y |-> h \div 2]
           /\ fake_homes = IF lv % 4 = 0 THEN FakeHomePoints(w, h) ELSE {}
           /\ home_elements = 1 + (IF lv % 4 = 0 THEN NumFakeHomes ELSE 0)
           /\ hung = FALSE
           /\ enemies = << [NewEnemy(KindOf(lv), "moving_right", "moving_up")
                               EXCEPT !.x = Px(PlayerStartX + d[1]),
                                      !.y = Px(h \div 2 + d[2])] >>
           /\ pending = after(0)
           /\ spawn_delay = Delay(lv)
           /\ created = 1
           /\ is_running = TRUE
           /\ won = FALSE
           /\ lost = FALSE
           /\ ticks = 0
           /\ clicks = 0
           /\ rendering = FALSE
           /\ last = [op |-> "init", p |-> Origin, active |-> FALSE,
                      win |-> FALSE, lose |-> FALSE, drew |-> Draws(lv)]
NearNext == animate \/ animate_rest \/ create_enemy
NearSpec == NearInit /\ [][NearNext]_vars

(* The game as start() leaves it, with the enemies es standing where     *)
(* create_enemy put them and the player at its start.                     *)
Standing(w, h, lv, es) ==
    /\ level = lv
    /\ screen_width = w
    /\ screen_height = h
    /\ home = [x |-> w - HomeMargin, y |-> h \div 2, size |-> HomeSize]
    /\ waypoint = [x |-> 0, y |-> 0, active |-> FALSE]
    /\ player = [x |-> PlayerStartX, y |-> h \div 2]
    /\ fake_homes \in FakeHomeChoices(lv, w, h)
    /\ home_elements = 1 + (IF lv % 4 = 0 THEN Len(es) * NumFakeHomes ELSE 0)
    /\ hung = FALSE
    /\ enemies = es
    /\ pending = after(0)
    /\ spawn_delay = Delay(lv)
    /\ created = Len(es)
    /\ is_running = TRUE
    /\ won = FALSE
    /\ lost = FALSE
    /\ ticks = 0
    /\ clicks = 0
    /\ rendering = FALSE
    /\ last = [op |-> "init", p |-> Origin, active |-> FALSE,
               win |-> FALSE, lose |-> FALSE, drew |-> Draws(lv)]

(* an enemy of the level's kind as create_enemy leaves it on the point pt *)
EnemyAt(w, h, lv, pt, sx, sy) ==
    [Construct(KindOf(lv), sx, sy,
               [x |-> w - HomeMargin, y |-> h \div 2, size |-> HomeSize])
        EXCEPT !.x = Px(pt[1]), !.y = Px(pt[2])]

(* The game as start() leaves it when the constructor's create_enemy      *)
(* sampled the point pt: the check of the distance is made against the    *)
(* turtle's origin, so points beside the player's start pass it.          *)
ConstructedAt(w, h, lv, pt) ==
    /\ FarEnough(pt[1], pt[2], Origin, lv)
    /\ \E sx \in StatesX(KindOf(lv)), sy \in StatesY(KindOf(lv)) :
          Standing(w, h, lv, <<EnemyAt(w, h, lv, pt, sx, sy)>>)

(* A chasing or boss enemy sampled beside the player's start, on a        *)
(* representable bearing: along an axis, on a 3-4-5 bearing, or on the    *)
(* player itself.                                                         *)
Bearings ==
    { <<k, 0>> : k \in (0 - 7)..7 } \cup { <<0, k>> : k \in (0 - 7)..7 }
       \cup { <<a, b>> : a \in {0 - 3, 3}, b \in {0 - 4, 4} }
       \cup { <<a, b>> : a \in {0 - 4, 4}, b \in {0 - 3, 3} }
BearingInit ==
    \E sz \in ScreenSizes, lv \in {18, 20}, b \in Bearings :
       ConstructedAt(sz[1], sz[2], lv,
                     <<PlayerStartX - b[1], sz[2] \div 2 - b[2]>>)
BearingSpec == BearingInit /\ [][NearNext]_vars

(* The levels 17 to 20, one of each kind, without clicks.  A timer        *)
(* callback that runs before the first frame can draw the point and the   *)
(* initial states that the constructor's create_enemy drew, which leaves  *)
(* two enemies of one kind in the same state in one game (a fencing       *)
(* enemy is always put on its corner of the fence).                       *)
TwinLevels == {17, 18, 19, 20}
TwinInit ==
    \E sz \in ScreenSizes, lv \in TwinLevels : Constructed(sz[1], sz[2], lv)
TwinSpec == TwinInit /\ [][NearNext]_vars

(* A chasing or boss enemy sampled beside the home on the player's line,  *)
(* which the check against the origin allows, and a player who may walk   *)
(* there.                                                                 *)
ClosePoints(w, h) == { <<w - HomeMargin + dx, h \div 2>> : dx \in 6..16 }
CloseInit ==
    \E sz \in ScreenSizes, lv \in {18, 20} :
       \E pt \in ClosePoints(sz[1], sz[2]) : ConstructedAt(sz[1], sz[2], lv, pt)
CloseNext == animate \/ animate_rest \/ create_enemy \/ activate
CloseSpec == CloseInit /\ [][CloseNext]_vars

----------------------------------------------------------------------------
(* Properties *)

(* the latest handler was the player's part of a frame / the enemies'    *)
(* part of a frame / a create_enemy that added an enemy                   *)
Framed == last.op = "animate"
Updated == last.op = "animate_enemies"
Added == last.op \in {"init", "create_enemy"} /\ ~hung /\ Len(enemies) > 0
Newest == enemies[Len(enemies)]

(* C1: a Player.update calls game_over_win exactly when the position the  *)
(* player had at the start of that update is in the closed box            *)
(* home.x +/- size/2, home.y +/- size/2; no other handler calls it.       *)
C1_WinIffInHome ==
    last.win <=>
       /\ Framed
       /\ 2 * Abs(last.p.x - home.x) <= home.size
       /\ 2 * Abs(last.p.y - home.y) <= home.size

(* the win was triggered from the left edge of the box *)
C1_Witness ==
    Framed /\ last.win /\ 2 * (home.x - last.p.x) = home.size

(* C2, as claimed: every enemy create_enemy adds, of every kind, is at    *)
(* least min_distance from the player's position at that moment.          *)
C2_Original ==
    Added => Dist2(Newest.x \div 10000, Newest.y \div 10000,
                   last.p.x, last.p.y)
                >= Max(250 - 10 * level, 100) * Max(250 - 10 * level, 100)

(* C2, amended: every enemy create_enemy adds on a level that is not a    *)
(* fencing level (level mod 4 # 3) is at least min_distance from the      *)
(* player's position at that moment; a FencingEnemy is put on the corner  *)
(* home + 50 wherever the player is.                                      *)
C2_Amended ==
    Added =>
       IF level % 4 = 3
       THEN /\ Newest.x = 10000 * (home.x + 50)
            /\ Newest.y = 10000 * (home.y + 50)
       ELSE /\ Newest.x % 10000 = 0 /\ Newest.y % 10000 = 0
            /\ Dist2(Newest.x \div 10000, Newest.y \div 10000,
                     last.p.x, last.p.y)
                  >= Max(250 - 10 * level, 100) * Max(250 - 10 * level, 100)

(* a sampled enemy was added while the player had left its start *)
C2_Witness ==
    /\ Added /\ last.op = "create_enemy" /\ level % 4 # 3
    /\ player.x # PlayerStartX

(* C3, as claimed: once game_over_win or game_over_lose has been called,  *)
(* no create_enemy runs and no enemy is added.                            *)
C3_NoSpawnAfterGameOver ==
    [][(won \/ lost) =>
          (Len(enemies') = Len(enemies) /\ created' = created)]_vars

(* C4, as claimed: a FencingEnemy in the game is never more than 50 from  *)
(* the home on either axis.                                               *)
C4_FencingBounded ==
    \A i \in 1..Len(enemies) :
       enemies[i].kind = "FencingEnemy" =>
          /\ Abs(enemies[i].x - 10000 * home.x) <= 10000 * 50
          /\ Abs(enemies[i].y - 10000 * home.y) <= 10000 * 50

(* C5, as claimed: an enemy's hit test reports a hit exactly when the     *)
(* player is in the closed square of side size centred on the enemy,      *)
(* the edges of the square included.  (Positions in 1/10000 pixel,        *)
(* sizes in thousandths.)                                                 *)
C5_HitIffInClosedSquare ==
    Updated =>
       (last.lose <=>
          \E i \in 1..Len(enemies) :
             /\ 2 * Abs(10000 * player.x - enemies[i].x) <= 10 * enemies[i].size
             /\ 2 * Abs(10000 * player.y - enemies[i].y) <= 10 * enemies[i].size)

(* C6: an active waypoint is deactivated after finitely many frames       *)
(* unless the game stops first, and the frame that deactivates it leaves  *)
(* the player less than one step (5) from the waypoint.                   *)
C6_WaypointDeactivated ==
    /\ waypoint.active ~> (~waypoint.active \/ ~is_running)
    /\ [][(waypoint.active /\ ~waypoint.active') =>
             Dist2(player'.x, player'.y, waypoint'.x, waypoint'.y) < 5 * 5]_vars

(* a frame deactivated the waypoint with the player beside it, not on it *)
C6_Witness ==
    /\ Framed /\ last.active /\ ~waypoint.active /\ is_running
    /\ Dist2(player.x, player.y, waypoint.x, waypoint.y) \in 1..24

(* C7, as claimed: at every moment after construction exactly one        *)
(* create_enemy callback is pending and the game holds one enemy for      *)
(* every invocation of create_enemy so far, the one whose sampling loop   *)
(* cannot end included.                                                   *)
C7_OnePendingOnePerCall ==
    /\ pending = 1
    /\ Len(enemies) = created + (IF hung THEN 1 ELSE 0)

(* C8: a RandomWalkEnemy reverses on an axis in exactly the updates that  *)
(* leave it past the canvas on that axis, and is never more than one      *)
(* step (3) outside the canvas.  (Positions in 1/10000 pixel.)            *)
C8_FlipsAtEdges ==
    [][\A i \in 1..Len(enemies) :
          enemies[i].kind = "RandomWalkEnemy" =>
             LET a == enemies[i]
                 b == enemies'[i]
                 updated == rendering /\ ~rendering'
                 wd == 10000 * screen_width
                 ht == 10000 * screen_height
             IN  /\ (a.state_x # b.state_x) <=>
                       (updated /\ (b.x > wd \/ b.x < 0))
                 /\ (a.state_y # b.state_y) <=>
                       (updated /\ (b.y > ht \/ b.y < 0))
                 /\ 0 - 30000 <= b.x /\ b.x <= wd + 30000
                 /\ 0 - 30000 <= b.y /\ b.y <= ht + 30000
                 /\ 0 - 30000 <= a.x /\ a.x <= wd + 30000
                 /\ 0 - 30000 <= a.y /\ a.y <= ht + 30000]_vars

(* one random-walk enemy has stepped past the left and the bottom edge    *)
(* and turned on both axes, another past the right and the top edge       *)
C8_Witness ==
    /\ Len(enemies) = 2
    /\ enemies[1].kind = "RandomWalkEnemy"
    /\ enemies[1].x = 0 - 30000 /\ enemies[1].state_x = "moving_right"
    /\ enemies[1].y = 10000 * screen_height + 30000
    /\ enemies[1].state_y = "moving_down"
    /\ enemies[2].x = 10000 * screen_width + 30000
    /\ enemies[2].state_x = "moving_left"
    /\ enemies[2].y = 0 - 30000 /\ enemies[2].state_y = "moving_up"

(* C9: a Player.update with the waypoint inactive leaves the player in    *)
(* place; one with the waypoint active displaces the player by exactly    *)
(* speed along the bearing to the waypoint, also past a waypoint nearer   *)
(* than speed.                                                            *)
C9_MovesOnlyTowardWaypoint ==
    Framed =>
       LET mx == player.x - last.p.x
           my == player.y - last.p.y
           dx == waypoint.x - last.p.x
           dy == waypoint.y - last.p.y
       IN  IF last.active
           THEN /\ mx * mx + my * my = 5 * 5
                /\ mx * dy = my * dx
                /\ mx * dx + my * dy >= 0
           ELSE mx = 0 /\ my = 0

(* the player stepped past a waypoint that was nearer than one step *)
C9_Witness ==
    /\ Framed /\ last.active
    /\ Dist2(last.p.x, last.p.y, waypoint.x, waypoint.y) \in 1..24
    /\ Dist2(player.x, player.y, waypoint.x, waypoint.y) > 0

(* C10: after n updates a BossEnemy has size 20 + 0.7 n and speed         *)
(* 3 + 0.001 n (both in thousandths here), so each update raises both.    *)
C10_BossGrows ==
    \A i \in 1..Len(enemies) :
       enemies[i].kind = "BossEnemy" =>
          /\ enemies[i].size = 20000 + 700 * enemies[i].n
          /\ enemies[i].speed = 3000 + enemies[i].n

(* a boss has been updated several times *)
C10_Witness ==
    \E i \in 1..Len(enemies) :
       enemies[i].kind = "BossEnemy" /\ enemies[i].n >= 3

(* C11: the delay create_enemy reschedules itself with is                 *)
(* max(200, 1000 - 10 * level) whatever else the state holds; it is       *)
(* never below 200, never above 1000, and no lower level has a smaller    *)
(* delay.                                                                 *)
C11_DelayByLevel ==
    Added =>
       /\ spawn_delay = Max(200, 1000 - 10 * level)
       /\ 200 <= spawn_delay /\ spawn_delay <= 1000
       /\ \A lo \in 0..level : Max(200, 1000 - 10 * lo) >= spawn_delay

(* a timer callback rescheduled itself at the floor, on a level whose     *)
(* unfloored delay would be below it                                      *)
C11_Witness ==
    /\ Added /\ last.op = "create_enemy"
    /\ 1000 - 10 * level < 200 /\ spawn_delay = 200

(* C12: an update of a ChasingEnemy or a BossEnemy displaces it by its     *)
(* speed (the one it enters the update with) along the bearing            *)
(* atan2(player.y - y, player.x - x), along +x when it is on the player;  *)
(* with the player at distance d >= speed its distance to the player      *)
(* afterwards is d - speed.  Lengths are in 1/10000 pixel.  Within 7      *)
(* pixels the distances are compared by their squares, on halved lengths  *)
(* (h.., r..); farther away the enemies of the model are on an axis       *)
(* through the player, where the distance is |dx| + |dy|.                 *)
C12_ExactBearing ==
    [][\A i \in 1..Len(enemies) :
          (rendering /\ ~rendering'
             /\ enemies[i].kind \in {"ChasingEnemy", "BossEnemy"}) =>
             LET a  == enemies[i]
                 b  == enemies'[i]
                 s  == 10 * a.speed
                 dx == 10000 * player.x - a.x
                 dy == 10000 * player.y - a.y
                 mx == b.x - a.x
                 my == b.y - a.y
                 hx == dx \div 2
                 hy == dy \div 2
                 rx == (dx - mx) \div 2
                 ry == (dy - my) \div 2
             IN  /\ mx * mx + my * my = s * s
                 /\ dx % 2 = 0 /\ dy % 2 = 0 /\ mx % 2 = 0 /\ my % 2 = 0
                 /\ IF dx = 0 /\ dy = 0 THEN mx > 0 /\ my = 0
                    ELSE /\ dx = 0 => mx = 0
                         /\ dy = 0 => my = 0
                         /\ dx # 0 => Sgn(mx) = Sgn(dx)
                         /\ dy # 0 => Sgn(my) = Sgn(dy)
                 /\ IF Abs(dx) <= 70000 /\ Abs(dy) <= 70000
                    THEN /\ mx * hy = my * hx
                         /\ \E hd \in {Abs(hx) + Abs(hy), (5 * Abs(hx)) \div 3,
                                        (5 * Abs(hx)) \div 4} :
                               /\ hd * hd = hx * hx + hy * hy
                               /\ 2 * hd >= s =>
                                     rx * rx + ry * ry
                                        = (hd - s \div 2) * (hd - s \div 2)
                    ELSE /\ dx = 0 \/ dy = 0
                         /\ Abs(dx - mx) + Abs(dy - my)
                               = Abs(dx) + Abs(dy) - s]_vars

(* a boss 5 pixels from the player on a 3-4-5 bearing has been updated:   *)
(* it moved 1.8 and 2.4 and is 1.2 and 1.6 from the player                *)
C12_Witness ==
    /\ Updated /\ Len(enemies) = 1 /\ enemies[1].kind = "BossEnemy"
    /\ enemies[1].n = 1
    /\ Abs(enemies[1].x - 10000 * player.x) = 12000
    /\ Abs(enemies[1].y - 10000 * player.y) = 16000

C14_FencingCycle ==
    /\ [][\A i \in 1..Len(enemies) :
             (enemies[i].kind = "FencingEnemy"
                /\ enemies'[i].current_direction_index
                      # enemies[i].current_direction_index) =>
                LET a == enemies[i]
                    b == enemies'[i]
                    hx == 10000 * home.x
                    hy == 10000 * home.y
                IN  /\ rendering /\ ~rendering'
                    /\ b.current_direction_index
                          = (a.current_direction_index + 1) % 4
                    /\ a.current_direction_index = 0 => b.x >= hx + 500000
                    /\ a.current_direction_index = 1 => b.y >= hy + 500000
                    /\ a.current_direction_index = 2 => b.x <= hx - 500000
                    /\ a.current_direction_index = 3 => b.y <= hy - 500000]_vars
    /\ \A k \in 0..3 :
          []<>(\/ ~is_running
               \/ level % 4 # 3
               \/ enemies[1].current_direction_index = k)

(* a fencing enemy has come round to its first direction and is half way  *)
(* along the fence                                                        *)
C14_Witness ==
    /\ is_running /\ Updated /\ Len(enemies) = 1
    /\ enemies[1].kind = "FencingEnemy"
    /\ enemies[1].current_direction_index = 0
    /\ enemies[1].x = 10000 * home.x /\ enemies[1].y = 10000 * (home.y - 50)

(* C15, as claimed: game_over_win and game_over_lose are never both       *)
(* called in one game.                                                    *)
C15_WinLoseExclusive == ~(won /\ lost)

(* C16, as claimed: when init_game has finished, the enemy made by the    *)
(* generator's constructor on a level that is not a fencing level is at   *)
(* least min_distance from the player's start (50, screen_height \div 2). *)
C16_FirstEnemyFarFromStart ==
    (last.op = "init" /\ ~hung /\ level % 4 # 3) =>
       Dist2(enemies[1].x \div 10000, enemies[1].y \div 10000,
             50, screen_height \div 2)
          >= Max(250 - 10 * level, 100) * Max(250 - 10 * level, 100)

(* C17, as claimed: create_enemy always returns; the game is never        *)
(* blocked inside its sampling loop.                                      *)
C17_CreateEnemyReturns == ~hung

(* C18: every enemy of a game has the kind its level gives: level mod 4   *)
(* 1 RandomWalkEnemy, 2 ChasingEnemy, 3 FencingEnemy, 0 BossEnemy; so     *)
(* all enemies of one game have the same kind.                            *)
C18_KindByLevel ==
    /\ \A i \in 1..Len(enemies) :
          enemies[i].kind = CASE level % 4 = 1 -> "RandomWalkEnemy"
                              [] level % 4 = 2 -> "ChasingEnemy"
                              [] level % 4 = 3 -> "FencingEnemy"
                              [] level % 4 = 0 -> "BossEnemy"
    /\ \A i, j \in 1..Len(enemies) : enemies[i].kind = enemies[j].kind

(* a timer callback has added a second boss *)
C18_Witness ==
    /\ last.op = "create_enemy" /\ ~hung /\ Len(enemies) = 2 /\ level % 4 = 0
    /\ enemies[1].kind = "BossEnemy" /\ enemies[2].kind = "BossEnemy"

(* C19: each BossEnemy made adds 5 Home elements to the game; game.home   *)
(* stays the home of init_game; an update of a player who stands in a     *)
(* fake home and outside the real one does not call game_over_win.        *)
C19_FakeHomesAreDecoys ==
    /\ home = [x |-> screen_width - 100, y |-> screen_height \div 2, size |-> 20]
    /\ home_elements =
          1 + (IF level % 4 = 0
               THEN 5 * (created + (IF hung THEN 1 ELSE 0)) ELSE 0)
    /\ level % 4 # 0 => fake_homes = {}
    /\ (/\ Framed
        /\ \E f \in fake_homes : /\ 2 * Abs(last.p.x - f[1]) <= 20
                                  /\ 2 * Abs(last.p.y - f[2]) <= 20
        /\ ~(/\ 2 * Abs(last.p.x - home.x) <= 20
             /\ 2 * Abs(last.p.y - home.y) <= 20))
       => ~last.win

(* a frame has updated a player standing in a fake home, after a second   *)
(* boss added five more                                                   *)
C19_Witness ==
    /\ Framed /\ ~last.win /\ level % 4 = 0 /\ home_elements = 11
    /\ <<last.p.x, last.p.y>> \in fake_homes

============================================================================
